---- MODULE Spec2Model ----
(***************************************************************************)
(* Model of package sh (mage): the PreparedCommand builder, the execution  *)
(* entry points layered on PreparedCommand.Exec, the package-level Exec,   *)
(* and the outcome classification (CmdRan, ExitStatus).                    *)
(*                                                                         *)
(* A PreparedCommand is a struct holding a POINTER to an exec.Cmd, and     *)
(* every method has a value receiver: the struct is copied, the exec.Cmd   *)
(* it points to is not.  The model therefore keeps the exec.Cmd objects in *)
(* a heap and a PreparedCommand value is a record holding a heap address.  *)
(*                                                                         *)
(* Text is a sequence of one-character strings.  What the child writes is  *)
(* a sequence of writes [fd, tok]; tokens written to fd 1 and to fd 2 are  *)
(* drawn from disjoint alphabets so that the origin of every token that    *)
(* shows up on a stream is known.                                          *)
(***************************************************************************)
EXTENDS Integers, Sequences, FiniteSets, TLC

\* ------------------------------------------------------------------ bounds
MaxChain == 2      \* builder calls applied to one configuration
MaxArgs == 2       \* entries of Cmd.Args (program name included)
MaxWrites == 2     \* writes the child performs before it ends
MaxCollapseLen == 3   \* arguments of a list given to CollapseArgs
MaxBaked == 2         \* arguments baked into a closure
MaxSpare == 1         \* spare capacity of the slice given to RunCmd or OutCmd
MaxPassed == 1        \* arguments given to one invocation of a closure
MaxInvocations == 2   \* invocations of one closure
PipeCap == 1          \* bytes the pipe of a Capture holds
MaxCapWrites == 2     \* writes to the captured stream
MaxOutputs == 2       \* Output calls on one Capture
MaxReleases == 2      \* Release calls on one Capture
MaxExit == 2       \* the child's exit codes are 0..MaxExit

\* ------------------------------------------------------------ vocabularies
NL == "nl"                       \* the newline character
OutToks == {"h", NL}             \* what a child writes to its stdout (fd 1)
ErrToks == {"E"}                 \* what a child writes to its stderr (fd 2)
LogTok == "LOG"                  \* the line log.Println writes in verbose mode
ChildToks == OutToks \cup ErrToks

\* Writers.  An io.Writer is modelled by the set of leaf writers a write to
\* it reaches: nil is {}, a buffer or file is a singleton, io.MultiWriter is
\* the union of its parts.
Leaves == {"osStdout", "osStderr", "sink", "output", "stdout", "buf"}
Nil == {}
OsStdout == {"osStdout"}
OsStderr == {"osStderr"}
UserSink == {"sink"}             \* a writer supplied by the caller
MultiWriter(a, b) == a \cup b

ProgName == <<"p">>
ArgChoices == {<<>>, <<"a">>}    \* "" and "a"
EnvEntry == [k |-> <<"F">>, v |-> <<"b">>]
DirChoice == <<"d">>

\* ------------------------------------------------------------------ errors
\* An error value: nil, *exec.ExitError (with its syscall.WaitStatus), the
\* error exec.Cmd.Run returns when the process could not be started, the
\* error mg.Fatalf builds, and the error fmt.Errorf builds.
Err(kind, exited, code) == [kind |-> kind, exited |-> exited, code |-> code]
NilErr == Err("nil", FALSE, 0)
StartErr == Err("StartError", FALSE, 0)
FmtErrorf == Err("Errorf", FALSE, 0)

\* syscall.WaitStatus.ExitStatus(): the exit code of a process that exited,
\* -1 for one that did not exit (it was ended by a signal).
WaitExitStatus(exited, code) == IF exited THEN code ELSE -1

ExitError(exited, code) == Err("ExitError", exited, WaitExitStatus(exited, code))

\* mg.Fatalf(code, ...), of package mg: an error whose ExitStatus() method
\* returns code.
Fatalf(code) == Err("Fatal", FALSE, code)

\* CmdRan taking every error of the launch for an exit.
CmdRan_AnyErrorRan(err) ==
  IF err.kind = "nil" THEN TRUE
  ELSE IF err.kind = "ExitError" THEN err.exited
  ELSE TRUE

CmdRan(err) ==
  IF err.kind = "nil" THEN TRUE
  ELSE IF err.kind = "ExitError" THEN err.exited
  ELSE FALSE

\* ExitStatus without the test for an ExitStatus() method.
ExitStatus_NoAccessor(err) ==
  IF err.kind = "nil" THEN 0
  ELSE IF err.kind = "ExitError" THEN err.code
  ELSE 1

ExitStatus(err) ==
  IF err.kind = "nil" THEN 0
  ELSE IF err.kind = "Fatal" THEN err.code
  ELSE IF err.kind = "ExitError" THEN err.code
  ELSE 1

\* ---------------------------------------------------------------- children
\* What the operating system does with one launch: the program cannot be
\* started, or it starts, performs its writes and ends by exiting with a
\* code or by a signal.
Writes == [fd : {1}, tok : OutToks] \cup [fd : {2}, tok : ErrToks]

RECURSIVE SeqsUpTo(_, _)
SeqsUpTo(S, n) ==
  IF n = 0 THEN {<<>>}
  ELSE LET shorter == SeqsUpTo(S, n - 1)
       IN shorter \cup {Append(s, x) : s \in {t \in shorter : Len(t) = n - 1}, x \in S}

Children ==
  {[start |-> FALSE, prog |-> <<>>, exited |-> FALSE, code |-> 0]}
  \cup [start : {TRUE}, prog : SeqsUpTo(Writes, MaxWrites), exited : {TRUE}, code : 0..MaxExit]
  \cup [start : {TRUE}, prog : SeqsUpTo(Writes, MaxWrites), exited : {FALSE}, code : {0}]

NoChild == [start |-> FALSE, prog |-> <<>>, exited |-> FALSE, code |-> 0]

\* ------------------------------------------------------------------- state
VARIABLES
  heap,      \* the exec.Cmd objects, by address
  c,         \* the PreparedCommand value the caller holds
  ret,       \* the PreparedCommand value the last builder call returned
  verbose,   \* mg.Verbose()
  streams,   \* what each leaf writer has received
  child,     \* what the operating system did with the last launch
  res,       \* what the last entry point returned
  last,      \* the name of the last operation
  lastSink,  \* the last sink-setting builder call (Stdout, Stderr, Silent) and its writer
  chain,     \* builder calls applied so far
  call,      \* the command line and the overlay given to the last execution, and
             \* the ambient environment its expansion read
  pc,        \* "idle", "built" (a configuration exists), "done" (it was executed)
  closure,   \* a function RunCmd or OutCmd returned, and its last invocation
  capture    \* the standard streams' handles and the Capture in progress

mainVars == <<heap, c, ret, verbose, streams, child, res, last, lastSink, chain, call, pc>>
vars == <<heap, c, ret, verbose, streams, child, res, last, lastSink, chain, call, pc,
          closure, capture>>

\* No closure was made yet. backing is the array under the baked args slice
\* (its length is the slice's capacity), len the slice's length.
NoClosure ==
  [kind |-> "none", backing |-> <<>>, len |-> 0, orig |-> <<>>, n |-> 0,
   passed |-> <<>>, ambient |-> <<>>, launched |-> <<>>, err |-> NilErr]

\* os.Stdout and os.Stderr at process start, and no Capture.
StdHandles == [stdout |-> "fd1", stderr |-> "fd2"]
NoCapture ==
  [handle |-> StdHandles, f |-> "none", began |-> StdHandles, releaseF |-> "nil",
   wOpen |-> FALSE, pipe |-> <<>>, buf |-> <<>>, rpc |-> "none", mpc |-> "run",
   written |-> <<>>, got |-> <<>>, nWrite |-> 0, nOut |-> 0, nRel |-> 0]

EmptyStreams == [l \in Leaves |-> <<>>]
NoRes == [ran |-> FALSE, code |-> 0, err |-> NilErr, out |-> <<>>]
Op(name, w) == [op |-> name, w |-> w]
NoCall == [env |-> <<>>, ambient |-> <<>>, cmd |-> <<>>, args |-> <<>>]

\* ----------------------------------------------------------------- builder
\* exec.Command(cmd, args...) followed by Command's assignments.
Command(cmd, args) ==
  [Path |-> cmd, Args |-> <<cmd>> \o args, Env |-> <<>>, Dir |-> <<>>,
   Stdout |-> OsStdout, Stderr |-> OsStderr]

\* Each builder method takes the heap and the receiver (a copy of the
\* struct) and gives the heap after the call and the value it returns.
Args(h, r, args) ==
  [heap |-> [h EXCEPT ![r.Cmd].Args = @ \o args], ret |-> r]

\* Collapse that never looks at the program name, the first entry of Cmd.Args.
Collapse_KeepsName(s) ==
  IF s = <<>> THEN s ELSE <<s[1]>> \o SelectSeq(Tail(s), LAMBDA a : a # <<>>)

Collapse(s) == SelectSeq(s, LAMBDA a : a # <<>>)

CollapseArgs(h, r) ==
  [heap |-> [h EXCEPT ![r.Cmd].Args = Collapse(@)], ret |-> r]

Env(h, r, entries) ==
  [heap |-> [h EXCEPT ![r.Cmd].Env = @ \o entries], ret |-> r]

In(h, r, dir) ==
  [heap |-> [h EXCEPT ![r.Cmd].Dir = dir], ret |-> r]

Stdout(h, r, w) ==
  [heap |-> [h EXCEPT ![r.Cmd].Stdout = w], ret |-> r]

Stderr(h, r, w) ==
  [heap |-> [h EXCEPT ![r.Cmd].Stdout = w], ret |-> r]

\* Silent clearing the stdout writer only.
Silent_StdoutOnly(h, r) ==
  [heap |-> [h EXCEPT ![r.Cmd].Stdout = Nil], ret |-> r]

Silent(h, r) ==
  [heap |-> [h EXCEPT ![r.Cmd].Stdout = Nil, ![r.Cmd].Stderr = Nil], ret |-> r]

\* --------------------------------------------------------------- execution
\* A write to writer w reaches every leaf of w.
Deliver(st, w, tok) == [l \in Leaves |-> IF l \in w THEN Append(st[l], tok) ELSE st[l]]

RECURSIVE WriteAll(_, _, _, _)
WriteAll(st, out, err, prog) ==
  IF prog = <<>> THEN st
  ELSE WriteAll(Deliver(st, IF Head(prog).fd = 1 THEN out ELSE err, Head(prog).tok),
                out, err, Tail(prog))

\* exec.Cmd.Run on the object at r.Cmd: the child's fd 1 is bound to
\* Cmd.Stdout and its fd 2 to Cmd.Stderr (nil discards), the call waits for
\* the child and reports how it ended.
CmdRun(h, r, st, ch) ==
  IF ~ch.start THEN [streams |-> st, err |-> StartErr]
  ELSE [streams |-> WriteAll(st, h[r.Cmd].Stdout, h[r.Cmd].Stderr, ch.prog),
        err |-> IF ch.exited /\ ch.code = 0 THEN NilErr
                ELSE ExitError(ch.exited, ch.code)]

\* log.Println writes to the process's standard error.
LogPrintln(st) == Deliver(st, OsStderr, LogTok)

\* Exec wrapping the error of a child that exited only: the error of a launch
\* that failed is dropped.
Exec_DropsLaunchError(h, r, st, v, ch) ==
  LET run == CmdRun(h, r, IF v THEN LogPrintln(st) ELSE st, ch)
      ran == CmdRan(run.err)
      code == ExitStatus(run.err)
  IN [heap |-> h, streams |-> run.streams, ran |-> ran, code |-> code,
      err |-> IF run.err # NilErr /\ ran THEN Fatalf(code) ELSE NilErr,
      out |-> <<>>]

Exec(h, r, st, v, ch) ==
  LET run == CmdRun(h, r, IF v THEN LogPrintln(st) ELSE st, ch)
      ran == CmdRan(run.err)
      code == ExitStatus(run.err)
  IN [heap |-> h, streams |-> run.streams, ran |-> ran, code |-> code,
      err |-> IF run.err # NilErr
              THEN (IF ran THEN Fatalf(code) ELSE FmtErrorf)
              ELSE run.err,
      out |-> <<>>]

\* A new bytes.Buffer is empty.
NewBuffer(st, leaf) == [st EXCEPT ![leaf] = <<>>]

\* fmt.Fprint(os.Stderr, text)
Fprint(st, w, text) == [l \in Leaves |-> IF l \in w THEN st[l] \o text ELSE st[l]]

\* TrimSuffix that trims nothing.
TrimSuffix_None(s) == s

\* strings.TrimSuffix(s, "\n")
TrimSuffix(s) == IF Len(s) > 0 /\ s[Len(s)] = NL THEN SubSeq(s, 1, Len(s) - 1) ELSE s

\* Run binding the child's stderr to os.Stderr as well.
Run_BindsStderr(h, r, st, v, ch) ==
  LET h1 == [h EXCEPT ![r.Cmd].Stdout = IF v THEN OsStdout ELSE Nil,
                      ![r.Cmd].Stderr = OsStderr]
  IN Exec(h1, r, st, v, ch)

Run(h, r, st, v, ch) ==
  LET h1 == [h EXCEPT ![r.Cmd].Stdout = IF v THEN OsStdout ELSE Nil]
  IN Exec(h1, r, st, v, ch)

RunV(h, r, st, v, ch) ==
  Exec(Stdout(h, r, OsStdout).heap, r, st, v, ch)

RunE(h, r, st, v, ch) ==
  LET st0 == NewBuffer(st, "output")
      h1 == Stdout(h, r, {"output"}).heap
      h2 == Stderr(h1, r, {"output"}).heap
      e == Exec(h2, r, st0, v, ch)
  IN [e EXCEPT !.streams = IF e.err # NilErr THEN Fprint(@, OsStderr, @["output"]) ELSE @]

RunS(h, r, st, v, ch) ==
  LET s == Silent(h, r) IN Exec(s.heap, s.ret, st, v, ch)

Output(h, r, st, v, ch) ==
  LET st0 == NewBuffer(st, "stdout")
      h1 == [h EXCEPT ![r.Cmd].Stdout =
               IF v THEN MultiWriter({"stdout"}, OsStdout) ELSE {"stdout"}]
      e == Exec(h1, r, st0, v, ch)
  IN [e EXCEPT !.out = TrimSuffix(e.streams["stdout"])]

OutputV(h, r, st, v, ch) ==
  LET st0 == NewBuffer(st, "stdout")
      h1 == [h EXCEPT ![r.Cmd].Stdout = MultiWriter({"stdout"}, OsStdout)]
      e == Exec(h1, r, st0, v, ch)
  IN [e EXCEPT !.out = TrimSuffix(e.streams["stdout"])]

OutputE(h, r, st, v, ch) ==
  LET st0 == NewBuffer(NewBuffer(st, "stdout"), "output")
      h1 == Stdout(h, r, MultiWriter({"stdout"}, {"output"})).heap
      h2 == Stderr(h1, r, {"output"}).heap
      e == Exec(h2, r, st0, v, ch)
  IN [e EXCEPT !.streams = IF e.err # NilErr THEN Fprint(@, OsStderr, @["output"]) ELSE @,
               !.out = e.streams["stdout"]]

OutputS(h, r, st, v, ch) ==
  LET st0 == NewBuffer(st, "stdout")
      s == Silent(h, r)
      e == Exec(s.heap, s.ret, st0, v, ch)
  IN [e EXCEPT !.out = TrimSuffix(e.streams["stdout"])]

\* ------------------------------------------------- package-level functions
\* os.Expand and its helper getShellName, on text as a sequence of
\* characters.  ShellName(s) is getShellName(s): the name s starts with and
\* the number of characters it takes.
IsAlnum(ch) == ch \in {"F", "U", "a", "b", "p", "x", "_"}
IsSpecialVar(ch) == ch \in {"$", "*", "#", "@", "!", "?", "-"}

RECURSIVE ScanBrace(_, _)
ScanBrace(s, i) ==
  IF i > Len(s) THEN [name |-> <<>>, w |-> 1]
  ELSE IF s[i] = "}"
       THEN (IF i = 2 THEN [name |-> <<>>, w |-> 2]
             ELSE [name |-> SubSeq(s, 2, i - 1), w |-> i])
       ELSE ScanBrace(s, i + 1)

RECURSIVE AlnumPrefix(_, _)
AlnumPrefix(s, i) ==
  IF i <= Len(s) /\ IsAlnum(s[i]) THEN AlnumPrefix(s, i + 1) ELSE i - 1

ShellName(s) ==
  IF s[1] = "{"
  THEN (IF Len(s) > 2 /\ IsSpecialVar(s[2]) /\ s[3] = "}"
        THEN [name |-> <<s[2]>>, w |-> 3]
        ELSE ScanBrace(s, 2))
  ELSE IF IsSpecialVar(s[1]) THEN [name |-> <<s[1]>>, w |-> 1]
  ELSE [name |-> SubSeq(s, 1, AlnumPrefix(s, 1)), w |-> AlnumPrefix(s, 1)]

\* The mapping Exec hands to os.Expand: the overlay first, then os.Getenv.
Getenv(ambient, name) == IF name \in DOMAIN ambient THEN ambient[name] ELSE <<>>
expand(env, ambient, name) == IF name \in DOMAIN env THEN env[name] ELSE Getenv(ambient, name)

RECURSIVE ExpandFrom(_, _, _, _, _, _)
ExpandFrom(s, j, i, buf, env, ambient) ==
  IF j > Len(s) THEN buf \o SubSeq(s, i, Len(s))
  ELSE IF s[j] = "$" /\ j + 1 <= Len(s)
       THEN LET sn == ShellName(SubSeq(s, j + 1, Len(s)))
                b1 == buf \o SubSeq(s, i, j - 1)
                b2 == IF sn.name = <<>> /\ sn.w > 0 THEN b1
                      ELSE IF sn.name = <<>> THEN Append(b1, s[j])
                      ELSE b1 \o expand(env, ambient, sn.name)
            IN ExpandFrom(s, j + sn.w + 1, j + sn.w + 1, b2, env, ambient)
       ELSE ExpandFrom(s, j + 1, i, buf, env, ambient)

Expand(s, env, ambient) == ExpandFrom(s, 1, 1, <<>>, env, ambient)

\* The variables a list of "k=v" entries of Cmd.Env sets: the last entry of a
\* name wins.
EnvMap(entries) ==
  [k \in {entries[i].k : i \in DOMAIN entries} |->
     LET i == CHOOSE i \in DOMAIN entries :
                /\ entries[i].k = k
                /\ \A j \in DOMAIN entries : entries[j].k = k => j <= i
     IN entries[i].v]

\* The entries of a map, as the "k=v" strings run appends to Cmd.Env.
EnvList(env) ==
  IF DOMAIN env = {} THEN <<>>
  ELSE LET k == CHOOSE x \in DOMAIN env : TRUE IN <<[k |-> k, v |-> env[k]]>>

\* run: a new exec.Cmd with the overlay, the writers and the expanded
\* command line, executed with PreparedCommand.Exec (the run that follows
\* Exec in prepared_command.go; the one in cmd.go calls a PreparedCommand.Run
\* whose body is an unfinished merge of the two).
run(env, stdout, stderr, cmd, args, st, v, ch) ==
  LET h == <<[Command(cmd, args) EXCEPT !.Env = EnvList(env),
                                         !.Stderr = stderr, !.Stdout = stdout]>>
  IN Exec(h, [Cmd |-> 1], st, v, ch)

\* sh.Exec
ShExec(env, ambient, stdout, stderr, cmd, args, st, v, ch) ==
  LET cmd1 == Expand(cmd, env, ambient)
      args1 == [i \in 1..Len(args) |-> Expand(args[i], env, ambient)]
      e == run(env, stdout, stderr, cmd1, args1, st, v, ch)
  IN [e EXCEPT !.ran = IF e.err = NilErr THEN TRUE ELSE e.ran,
               !.err = IF e.err = NilErr THEN NilErr
                       ELSE IF e.ran THEN Fatalf(e.code)
                       ELSE FmtErrorf]

\* sh.RunWith and sh.Run
RunWith(env, ambient, cmd, args, st, v, ch) ==
  ShExec(env, ambient, IF v THEN OsStdout ELSE Nil, OsStderr, cmd, args, st, v, ch)

ShRun(ambient, cmd, args, st, v, ch) == RunWith(<<>>, ambient, cmd, args, st, v, ch)

\* sh.Output
ShOutput(ambient, cmd, args, st, v, ch) ==
  LET e == ShExec(<<>>, ambient, {"buf"}, OsStderr, cmd, args, NewBuffer(st, "buf"), v, ch)
  IN [e EXCEPT !.out = TrimSuffix(e.streams["buf"])]

\* ----------------------------------------------------------------- actions
Sinks == {Nil, OsStdout, UserSink}
Environs == {<<>>, (<<"F">> :> <<"x">>)}
Overlays == {<<>>, (<<"F">> :> <<"b">>)}
CmdChoices == {ProgName, <<"$", "F">>}
CommandArgChoices == ArgChoices \cup {<<"$", "F">>}
ShArgChoices == {<<"a">>, <<"$", "F">>, <<"$", "{", "F", "}">>, <<"$", "U">>}

Rest ==
  /\ heap = <<>>
  /\ c = [Cmd |-> 0]
  /\ ret = [Cmd |-> 0]
  /\ verbose = FALSE
  /\ streams = EmptyStreams
  /\ child = NoChild
  /\ res = NoRes
  /\ last = "none"
  /\ lastSink = Op("none", Nil)
  /\ chain = 0
  /\ call = NoCall
  /\ pc = "idle"

Init == Rest /\ closure = NoClosure /\ capture = NoCapture

\* The caller is done with a configuration and its outcome: a configuration
\* is executed once and then dropped.
Discard ==
  /\ pc = "done"
  /\ pc' = "idle"
  /\ last' = "none"
  /\ lastSink' = Op("none", Nil)
  /\ heap' = <<>> /\ c' = [Cmd |-> 0] /\ ret' = [Cmd |-> 0]
  /\ streams' = EmptyStreams /\ child' = NoChild /\ res' = NoRes /\ chain' = 0
  /\ call' = NoCall
  /\ UNCHANGED <<verbose, closure, capture>>

\* os.Setenv / os.Unsetenv of the verbosity flag, between two commands.
SetVerbose ==
  /\ pc = "idle"
  /\ verbose' = ~verbose
  /\ UNCHANGED <<heap, c, ret, streams, child, res, last, lastSink, chain, call, pc, closure, capture>>

\* c := Command(cmd, args...): a new exec.Cmd; the caller's streams are
\* observed from here on.
NewCommandFrom(choices) ==
  /\ pc = "idle"
  /\ \E args \in SeqsUpTo(choices, MaxArgs - 1) :
       heap' = <<Command(ProgName, args)>>
  /\ c' = [Cmd |-> 1]
  /\ ret' = [Cmd |-> 1]
  /\ streams' = EmptyStreams
  /\ child' = NoChild
  /\ res' = NoRes
  /\ last' = "Command"
  /\ lastSink' = Op("none", Nil)
  /\ chain' = 0
  /\ pc' = "built"
  /\ UNCHANGED <<verbose, call, closure, capture>>

NewCommand == NewCommandFrom(ArgChoices)

\* One more call of the chain, on the value the previous call returned.
Build(name, w, b) ==
  /\ pc = "built"
  /\ chain < MaxChain
  /\ heap' = b.heap
  /\ ret' = b.ret
  /\ last' = name
  /\ lastSink' = IF name \in {"Stdout", "Stderr", "Silent"} THEN Op(name, w) ELSE lastSink
  /\ chain' = chain + 1
  /\ UNCHANGED <<c, verbose, streams, child, res, call, pc, closure, capture>>

DoArgs ==
  /\ pc = "built"
  /\ Len(heap[ret.Cmd].Args) < MaxArgs
  /\ \E a \in ArgChoices : Build("Args", Nil, Args(heap, ret, <<a>>))

DoCollapseArgs == pc = "built" /\ Build("CollapseArgs", Nil, CollapseArgs(heap, ret))

DoEnv ==
  /\ pc = "built"
  /\ Len(heap[ret.Cmd].Env) < 1
  /\ Build("Env", Nil, Env(heap, ret, <<EnvEntry>>))

DoIn == pc = "built" /\ Build("In", Nil, In(heap, ret, DirChoice))

DoStdout == pc = "built" /\ \E w \in Sinks : Build("Stdout", w, Stdout(heap, ret, w))

DoStderr == pc = "built" /\ \E w \in Sinks : Build("Stderr", w, Stderr(heap, ret, w))

DoSilent == pc = "built" /\ Build("Silent", Nil, Silent(heap, ret))

\* An entry point called on the built configuration; the operating system
\* chooses what becomes of the child.
Finish(name, e, ch) ==
  /\ heap' = e.heap
  /\ streams' = e.streams
  /\ res' = [ran |-> e.ran, code |-> e.code, err |-> e.err, out |-> e.out]
  /\ child' = ch
  /\ call' = [env |-> EnvMap(heap[ret.Cmd].Env), ambient |-> <<>>,
              cmd |-> heap[ret.Cmd].Path, args |-> Tail(heap[ret.Cmd].Args)]
  /\ last' = name
  /\ pc' = "done"
  /\ UNCHANGED <<c, ret, verbose, lastSink, chain, closure, capture>>

CallExec == pc = "built" /\ \E ch \in Children : Finish("Exec", Exec(heap, ret, streams, verbose, ch), ch)
CallRun == pc = "built" /\ \E ch \in Children : Finish("Run", Run(heap, ret, streams, verbose, ch), ch)
CallRunV == pc = "built" /\ \E ch \in Children : Finish("RunV", RunV(heap, ret, streams, verbose, ch), ch)
CallRunE == pc = "built" /\ \E ch \in Children : Finish("RunE", RunE(heap, ret, streams, verbose, ch), ch)
CallRunS == pc = "built" /\ \E ch \in Children : Finish("RunS", RunS(heap, ret, streams, verbose, ch), ch)
CallOutput == pc = "built" /\ \E ch \in Children : Finish("Output", Output(heap, ret, streams, verbose, ch), ch)
CallOutputV == pc = "built" /\ \E ch \in Children : Finish("OutputV", OutputV(heap, ret, streams, verbose, ch), ch)
CallOutputE == pc = "built" /\ \E ch \in Children : Finish("OutputE", OutputE(heap, ret, streams, verbose, ch), ch)
CallOutputS == pc = "built" /\ \E ch \in Children : Finish("OutputS", OutputS(heap, ret, streams, verbose, ch), ch)

\* The return of a package-level function called with cmd and args, in the
\* ambient environment the process has at the time of the call (what
\* os.Getenv answers).
ShFinish(name, e, ch, env, ambient, cmd, args) ==
  /\ heap' = e.heap
  /\ streams' = e.streams
  /\ res' = [ran |-> e.ran, code |-> 0, err |-> e.err, out |-> e.out]
  /\ child' = ch
  /\ call' = [env |-> env, ambient |-> ambient, cmd |-> cmd, args |-> args]
  /\ c' = [Cmd |-> 0]
  /\ ret' = [Cmd |-> 0]
  /\ last' = name
  /\ lastSink' = Op("none", Nil)
  /\ chain' = 0
  /\ pc' = "done"
  /\ UNCHANGED <<verbose, closure, capture>>

\* sh.Exec(env, stdout, stderr, cmd, args...)
CallShExec ==
  /\ pc = "idle"
  /\ \E ch \in Children, env \in Overlays, ambient \in Environs, so \in Sinks,
        se \in {Nil, OsStderr}, cmd \in CmdChoices, args \in SeqsUpTo(ShArgChoices, 1) :
       ShFinish("ShExec", ShExec(env, ambient, so, se, cmd, args, EmptyStreams, verbose, ch),
                ch, env, ambient, cmd, args)

\* sh.Run(cmd, args...)
CallShRun ==
  /\ pc = "idle"
  /\ \E ch \in Children, ambient \in Environs, cmd \in CmdChoices,
        args \in SeqsUpTo(ShArgChoices, 1) :
       ShFinish("ShRun", ShRun(ambient, cmd, args, EmptyStreams, verbose, ch),
                ch, <<>>, ambient, cmd, args)

\* sh.Output(cmd, args...)
CallShOutput ==
  /\ pc = "idle"
  /\ \E ch \in Children, ambient \in Environs, cmd \in CmdChoices,
        args \in SeqsUpTo(ShArgChoices, 1) :
       ShFinish("ShOutput", ShOutput(ambient, cmd, args, EmptyStreams, verbose, ch),
                ch, <<>>, ambient, cmd, args)

Next ==
  \/ Discard
  \/ SetVerbose
  \/ NewCommand
  \/ DoArgs
  \/ DoCollapseArgs
  \/ DoEnv
  \/ DoIn
  \/ DoStdout
  \/ DoStderr
  \/ DoSilent
  \/ CallExec
  \/ CallRun
  \/ CallRunV
  \/ CallRunE
  \/ CallRunS
  \/ CallOutput
  \/ CallOutputV
  \/ CallOutputE
  \/ CallOutputS
  \/ CallShExec
  \/ CallShRun
  \/ CallShOutput

Spec == Init /\ [][Next]_vars

\* ------------------------------------- command lines with references
\* The entry points, on configurations whose arguments may hold a $NAME
\* reference and whose environment may hold an overlay.
NewCommandWithRefs == NewCommandFrom(CommandArgChoices)

ExpandNext ==
  \/ NewCommandWithRefs \/ DoEnv \/ Discard
  \/ CallExec \/ CallRun \/ CallRunV \/ CallRunE \/ CallRunS
  \/ CallOutput \/ CallOutputV \/ CallOutputE \/ CallOutputS
  \/ CallShExec \/ CallShRun \/ CallShOutput

ExpandSpec == Init /\ [][ExpandNext]_vars

\* --------------------------------------------- CollapseArgs on its own
\* Every Command(name, args...) with up to MaxCollapseLen arguments, empty
\* ones and empty name included; call keeps the list as it was given.
CollapseChoices == {<<>>, <<"a">>, <<"b">>}

CollapseInit ==
  /\ \E name \in CollapseChoices, args \in SeqsUpTo(CollapseChoices, MaxCollapseLen) :
       /\ heap = <<Command(name, args)>>
       /\ call = [NoCall EXCEPT !.cmd = name, !.args = args]
  /\ c = [Cmd |-> 1]
  /\ ret = [Cmd |-> 1]
  /\ verbose = FALSE
  /\ streams = EmptyStreams
  /\ child = NoChild
  /\ res = NoRes
  /\ last = "Command"
  /\ lastSink = Op("none", Nil)
  /\ chain = 0
  /\ pc = "built"
  /\ closure = NoClosure
  /\ capture = NoCapture

CollapseNext == DoCollapseArgs

CollapseSpec == CollapseInit /\ [][CollapseNext]_vars

\* ------------------------------------------------- RunCmd and OutCmd
BakedChoices == {<<"a">>, <<"$", "F">>}
ClosureChildren == {NoChild, [start |-> TRUE, prog |-> <<>>, exited |-> TRUE, code |-> 0]}

\* append(args, args2...): args itself when there is nothing to append; the
\* same array, written past len(args), when its capacity suffices; a new
\* array otherwise.
GoAppend(backing, len, args2) ==
  IF args2 = <<>> THEN [shared |-> TRUE, array |-> backing, len |-> len]
  ELSE IF len + Len(args2) <= Len(backing)
  THEN [shared |-> TRUE,
        array |-> SubSeq(backing, 1, len) \o args2
                    \o SubSeq(backing, len + Len(args2) + 1, Len(backing)),
        len |-> len + Len(args2)]
  ELSE [shared |-> FALSE, array |-> SubSeq(backing, 1, len) \o args2,
        len |-> len + Len(args2)]

\* The loop of Exec: args[i] = os.Expand(args[i], expand), on the slice it
\* was given.
ExpandArgs(args, env, ambient) ==
  [i \in 1..Len(args) |-> Expand(args[i], env, ambient)]

\* RunCmd(cmd, args...) and OutCmd(cmd, args...): the closure keeps the
\* slice it was given; a caller that spreads a slice of its own (s...) hands
\* over that slice, with its spare capacity.
RunCmd(args, spare) ==
  [NoClosure EXCEPT !.kind = "RunCmd", !.backing = args \o [i \in 1..spare |-> <<>>],
                    !.len = Len(args), !.orig = args]

OutCmd(args, spare) == [RunCmd(args, spare) EXCEPT !.kind = "OutCmd"]

\* f(args2...): Run or Output of cmd with append(args, args2...), which
\* passes the slice on to Exec; Exec expands it in place.
Invoke(cl, args2, ambient, v, ch) ==
  LET x == GoAppend(cl.backing, cl.len, args2)
      xs == SubSeq(x.array, 1, x.len)
      e == IF cl.kind = "RunCmd" THEN ShRun(ambient, ProgName, xs, EmptyStreams, v, ch)
           ELSE ShOutput(ambient, ProgName, xs, EmptyStreams, v, ch)
      array == ExpandArgs(xs, <<>>, ambient) \o SubSeq(x.array, x.len + 1, Len(x.array))
  IN [cl EXCEPT !.backing = IF x.shared THEN array ELSE @,
                !.n = @ + 1, !.passed = args2, !.ambient = ambient,
                !.launched = e.heap[1].Args, !.err = e.err]

CallRunCmd ==
  /\ closure.kind = "none"
  /\ \E args \in SeqsUpTo(BakedChoices, MaxBaked), spare \in 0..MaxSpare :
       closure' = RunCmd(args, spare)
  /\ UNCHANGED <<mainVars, capture>>

CallOutCmd ==
  /\ closure.kind = "none"
  /\ \E args \in SeqsUpTo(BakedChoices, MaxBaked), spare \in 0..MaxSpare :
       closure' = OutCmd(args, spare)
  /\ UNCHANGED <<mainVars, capture>>

CallClosure ==
  /\ closure.kind # "none"
  /\ closure.n < MaxInvocations
  /\ \E args2 \in SeqsUpTo(BakedChoices, MaxPassed), ambient \in Environs,
        ch \in ClosureChildren :
       closure' = Invoke(closure, args2, ambient, verbose, ch)
  /\ UNCHANGED <<mainVars, capture>>

ClosureNext == CallRunCmd \/ CallOutCmd \/ CallClosure

ClosureSpec == Init /\ [][ClosureNext]_vars

\* ------------------------------------------------------------ Capture
\* A stream's handle is named by what it writes to: the process's descriptor
\* 1 or 2, a file the program redirected the stream to earlier, or the pipe
\* of the Capture.
CapToks == {"h", "k"}
Handles == [stdout : {"fd1", "file"}, stderr : {"fd2", "file"}]

\* captureFile(f, releaseF): *f = *w, and the goroutine starts to copy.
captureFile(cp, f, releaseF) ==
  [cp EXCEPT !.f = f, !.began = cp.handle, !.releaseF = releaseF, !.wOpen = TRUE,
             !.handle[f] = "pipe", !.rpc = "copy"]

CaptureStdout(cp) == captureFile(cp, "stdout", "fd1")
CaptureStderr(cp) == captureFile(cp, "stderr", "fd2")

Release(cp) ==
  IF cp.releaseF = "nil" THEN cp
  ELSE [cp EXCEPT !.handle[cp.f] = cp.releaseF, !.wOpen = FALSE, !.releaseF = "nil"]

CaptureInit ==
  /\ Rest
  /\ closure = NoClosure
  /\ \E h \in Handles : capture = [NoCapture EXCEPT !.handle = h, !.began = h]

CallCaptureStdout ==
  /\ capture.rpc = "none"
  /\ capture' = CaptureStdout(capture)
  /\ UNCHANGED <<mainVars, closure>>

CallCaptureStderr ==
  /\ capture.rpc = "none"
  /\ capture' = CaptureStderr(capture)
  /\ UNCHANGED <<mainVars, closure>>

\* The program writes a byte to the stream of the Capture: into the pipe
\* while the stream's handle is the pipe (the write waits while the pipe is
\* full), to where the handle leads otherwise.
WriteStream ==
  /\ capture.f # "none"
  /\ capture.mpc = "run"
  /\ capture.nWrite < MaxCapWrites
  /\ \E tok \in CapToks :
       IF capture.handle[capture.f] = "pipe"
       THEN /\ Len(capture.pipe) < PipeCap
            /\ capture' = [capture EXCEPT !.pipe = Append(@, tok),
                                           !.written = Append(@, tok),
                                           !.nWrite = @ + 1]
       ELSE capture' = [capture EXCEPT !.nWrite = @ + 1]
  /\ UNCHANGED <<mainVars, closure>>

\* The goroutine: io.Copy(&buf, r) reads what the pipe holds ...
ReaderCopy ==
  /\ capture.rpc = "copy"
  /\ capture.pipe # <<>>
  /\ capture' = [capture EXCEPT !.buf = Append(@, Head(capture.pipe)), !.pipe = Tail(@)]
  /\ UNCHANGED <<mainVars, closure>>

\* ... and returns when the pipe is empty and its write end closed; the
\* goroutine then waits to send on c.out.
ReaderEOF ==
  /\ capture.rpc = "copy"
  /\ capture.pipe = <<>>
  /\ ~capture.wOpen
  /\ capture' = [capture EXCEPT !.rpc = "send"]
  /\ UNCHANGED <<mainVars, closure>>

CallCaptureRelease ==
  /\ capture.f # "none"
  /\ capture.mpc = "run"
  /\ capture.nRel < MaxReleases
  /\ capture' = [Release(capture) EXCEPT !.nRel = @ + 1]
  /\ UNCHANGED <<mainVars, closure>>

\* Output: c.Release(), then the caller waits to receive from c.out.
CallCaptureOutput ==
  /\ capture.f # "none"
  /\ capture.mpc = "run"
  /\ capture.nOut < MaxOutputs
  /\ capture' = [Release(capture) EXCEPT !.mpc = "recv", !.nOut = @ + 1]
  /\ UNCHANGED <<mainVars, closure>>

\* c.out is unbuffered: the goroutine's send and Output's receive happen
\* together; the goroutine ends, Output returns what it received.
Receive ==
  /\ capture.mpc = "recv"
  /\ capture.rpc = "send"
  /\ capture' = [capture EXCEPT !.got = capture.buf, !.rpc = "done", !.mpc = "run"]
  /\ UNCHANGED <<mainVars, closure>>

CaptureNext ==
  \/ CallCaptureStdout \/ CallCaptureStderr \/ WriteStream
  \/ ReaderCopy \/ ReaderEOF \/ CallCaptureRelease \/ CallCaptureOutput \/ Receive

CaptureSpec == CaptureInit /\ [][CaptureNext]_vars

\* ------------------------------------------------------------ observations
\* The text the child wrote to one of its descriptors, in order.
Written(ch, fd) ==
  LET sel == SelectSeq(ch.prog, LAMBDA w : w.fd = fd)
  IN [i \in 1..Len(sel) |-> sel[i].tok]

\* The part of a stream that came from a child's stderr / from the child.
FromErr(s) == SelectSeq(s, LAMBDA t : t \in ErrToks)
FromChild(s) == SelectSeq(s, LAMBDA t : t \in ChildToks)

Executed(names) == pc = "done" /\ last \in names
ExitedNonZero == child.start /\ child.exited /\ child.code # 0
ExitedZero == child.start /\ child.exited /\ child.code = 0
BuilderStep == pc = "built" /\ pc' = "built" /\ chain' = chain + 1

\* ------------------------------------------------------------------ claims

\* C1: a child that starts and exits with a non-zero code N makes Exec (the
\* package-level function and the method) report ran = true and a non-nil
\* error whose ExitStatus is exactly N.
C1_ExitCodeCarried ==
  (Executed({"Exec", "ShExec"}) /\ ExitedNonZero)
    => /\ res.ran
       /\ res.err # NilErr
       /\ ExitStatus(res.err) = child.code

C1_Witness ==
  /\ Executed({"ShExec"}) /\ ExitedNonZero
  /\ child.code = MaxExit /\ child.code > 1
  /\ ExitStatus(res.err) = child.code

\* C2: a program that cannot be started makes Exec report ran = false and a
\* non-nil error; the exit code is 1 and comes from the last branch of
\* ExitStatus: the error has no ExitStatus method and is no ExitError.
C2_NotStarted ==
  (Executed({"Exec", "ShExec"}) /\ ~child.start)
    => /\ ~res.ran
       /\ res.err # NilErr
       /\ res.err.kind \notin {"Fatal", "ExitError"}
       /\ ExitStatus(res.err) = 1
       /\ (last = "Exec" => res.code = 1)

C2_Witness ==
  /\ Executed({"Exec"}) /\ ~child.start
  /\ ~res.ran /\ res.code = 1 /\ res.err = FmtErrorf

\* C3: whenever Exec reports ran = false, the child never started and the
\* error is non-nil.
C3_NotRanNeverStarted ==
  (Executed({"Exec", "ShExec"}) /\ ~res.ran)
    => (~child.start /\ res.err # NilErr)

\* C4: a builder call leaves every attribute of the configuration the caller
\* holds as it was.
C4_BuildersPure ==
  [][BuilderStep => heap'[c.Cmd] = heap[c.Cmd]]_vars

\* C5: after Stderr(w) the stderr writer is w and the stdout writer is what it
\* was; after Stdout(w) the stdout writer is w and the stderr writer is what it
\* was.
C5_RedirectOwnStream ==
  [][(BuilderStep /\ last' \in {"Stdout", "Stderr"})
       => /\ last' = "Stderr" => /\ heap'[ret'.Cmd].Stderr = lastSink'.w
                                 /\ heap'[ret'.Cmd].Stdout = heap[ret.Cmd].Stdout
          /\ last' = "Stdout" => /\ heap'[ret'.Cmd].Stdout = lastSink'.w
                                 /\ heap'[ret'.Cmd].Stderr = heap[ret.Cmd].Stderr]_vars

\* C6: RunE of a child that exits 0 returns nil and nothing the child wrote
\* reaches the caller's stdout or stderr.
C6_RunEQuietOnSuccess ==
  (Executed({"RunE"}) /\ ExitedZero)
    => /\ res.err = NilErr
       /\ FromChild(streams["osStdout"]) = <<>>
       /\ FromChild(streams["osStderr"]) = <<>>

\* C7: RunE and OutputE of a child that writes to stderr and exits non-zero
\* return a non-nil error, and the caller's stderr holds the child's stderr
\* text exactly once.
C7_StderrReplayedOnce ==
  (Executed({"RunE", "OutputE"}) /\ ExitedNonZero /\ Written(child, 2) # <<>>)
    => /\ res.err # NilErr
       /\ FromErr(streams["osStderr"]) = Written(child, 2)

\* C8: RunS and OutputS let nothing the child wrote reach the caller's stdout
\* or stderr or a writer configured earlier, in both modes and for every
\* outcome; a child that fails still gives a non-nil error, which carries the
\* exit code when the child exited with one.
C8_SilentEntries ==
  (Executed({"RunS", "OutputS"}) /\ child.start)
    => /\ FromChild(streams["osStdout"]) = <<>>
       /\ FromChild(streams["osStderr"]) = <<>>
       /\ streams["sink"] = <<>>
       /\ (~ExitedZero => res.err # NilErr)
       /\ (ExitedNonZero => ExitStatus(res.err) = child.code)

C8_Witness ==
  /\ Executed({"RunS"}) /\ ExitedNonZero /\ verbose
  /\ lastSink = Op("Stdout", UserSink)
  /\ Written(child, 1) # <<>> /\ Written(child, 2) # <<>>
  /\ child.code = MaxExit
  /\ ExitStatus(res.err) = MaxExit
  /\ streams["sink"] = <<>>

\* C9: whatever writers the chain set, Run delivers the child's stdout to the
\* caller's stdout exactly in verbose mode and the child's stderr always to
\* the caller's stderr.
C9_RunRouting ==
  (Executed({"Run"}) /\ child.start)
    => /\ FromChild(streams["osStdout"]) = (IF verbose THEN Written(child, 1) ELSE <<>>)
       /\ FromChild(streams["osStderr"]) = Written(child, 2)

IsTrimOf(out, w) ==
  IF Len(w) > 0 /\ w[Len(w)] = NL THEN out \o <<NL>> = w ELSE out = w

PreparedEntries ==
  {"Exec", "Run", "RunV", "RunE", "RunS", "Output", "OutputV", "OutputE", "OutputS"}
ShEntries == {"ShExec", "ShRun", "ShOutput"}

\* C11: for a child that exits 0, Output (the method and the package-level
\* function) returns what the child wrote to stdout, with exactly one
\* trailing newline removed when there is one and nothing removed otherwise.
C11_OutputTrimsOneNewline ==
  (Executed({"Output", "ShOutput"}) /\ ExitedZero)
    => IsTrimOf(res.out, Written(child, 1))

C11_Witness ==
  /\ Executed({"Output"}) /\ ExitedZero
  /\ Written(child, 1) = <<"h", NL>>
  /\ res.out = <<"h">>

\* C12: OutputV, OutputE and OutputS return what Output returns for the same
\* child: the child's stdout with exactly one trailing newline removed.
C12_OutputVariantsSameText ==
  (Executed({"OutputV", "OutputE", "OutputS"}) /\ child.start)
    => IsTrimOf(res.out, Written(child, 1))

\* C15: an execution that returns a nil error ran, with code 0, a child that
\* exited with 0; so ran = false or a non-zero code never comes with a nil
\* error.
C15_NilErrorMeansSuccess ==
  (Executed(PreparedEntries \cup ShEntries) /\ res.err = NilErr)
    => /\ ExitedZero
       /\ res.ran
       /\ last = "Exec" => res.code = 0

C15_Witness ==
  /\ Executed({"Exec"}) /\ res.err = NilErr
  /\ res.ran /\ res.code = 0
  /\ child.prog # <<>>

\* The value the environment gives a name: the overlay's, else the ambient
\* one, else the empty string.
Lookup(env, ambient, name) ==
  IF name \in DOMAIN env THEN env[name]
  ELSE IF name \in DOMAIN ambient THEN ambient[name]
  ELSE <<>>

\* What a word of the command line stands for: a reference $NAME or ${NAME}
\* stands for the value of NAME, any other word of the inputs for itself.
Expanded(s, env, ambient) ==
  IF s \in {<<"$", "F">>, <<"$", "{", "F", "}">>} THEN Lookup(env, ambient, <<"F">>)
  ELSE IF s = <<"$", "U">> THEN Lookup(env, ambient, <<"U">>)
  ELSE s

\* The exec.Cmd that was executed.
Launched == heap[IF ret.Cmd = 0 THEN 1 ELSE ret.Cmd]

LaunchedExpanded(ambient) ==
  /\ Launched.Path = Expanded(call.cmd, call.env, ambient)
  /\ Launched.Args = <<Launched.Path>> \o
       [i \in 1..Len(call.args) |-> Expanded(call.args[i], call.env, ambient)]

\* C13: whatever the entry point (the package-level functions, or the
\* execution of a configuration built with Command), the program name and
\* every argument are launched with their $NAME and ${NAME} references
\* replaced by the overlay's value, else the ambient one, else "".
\* A package-level call is checked against the ambient environment it read;
\* the execution of a configuration reads none, so it is checked against
\* every environment the process may have.
C13_ExpandedEveryEntry ==
  /\ Executed(ShEntries) => LaunchedExpanded(call.ambient)
  /\ Executed(PreparedEntries) => \A ambient \in Environs : LaunchedExpanded(ambient)

\* out holds the non-empty entries of in, all of them and nothing else, in
\* the order they have in in.
IsCollapseOf(out, in) ==
  LET kept == {i \in DOMAIN in : in[i] # <<>>}
  IN /\ Len(out) = Cardinality(kept)
     /\ \A i \in kept : out[Cardinality({j \in kept : j <= i})] = in[i]
     /\ \A k \in DOMAIN out : out[k] # <<>>

\* C16: CollapseArgs leaves the non-empty entries of the argument list, all
\* of them, in their order, and no empty one; applied to its own result it
\* changes nothing.
C16_CollapseArgs ==
  /\ [](last = "CollapseArgs" => IsCollapseOf(heap[ret.Cmd].Args, <<call.cmd>> \o call.args))
  /\ [][(last = "CollapseArgs" /\ last' = "CollapseArgs")
          => heap'[ret.Cmd].Args = heap[ret.Cmd].Args]_vars

C16_Witness ==
  /\ last = "CollapseArgs" /\ chain = 2
  /\ call.cmd = <<"a">> /\ call.args = <<<<>>, <<"b">>, <<>>>>
  /\ heap[ret.Cmd].Args = <<<<"a">>, <<"b">>>>

\* The arguments baked into the closure, as its next invocation reads them.
BakedArgs == SubSeq(closure.backing, 1, closure.len)

\* C14: every invocation f(B) of a closure made with arguments A launches
\* the command with A followed by B, expanded in the environment of that
\* invocation, whatever the number of the invocation and also for an empty
\* B; and after it the closure still holds A as it was given.
C14_BakedThenPassed ==
  closure.n > 0 =>
    /\ closure.launched = <<ProgName>> \o
         [i \in 1..Len(closure.orig \o closure.passed) |->
            Expanded((closure.orig \o closure.passed)[i], <<>>, closure.ambient)]
    /\ BakedArgs = closure.orig

\* C17: a call of Capture.Output returns (while it waits, the goroutine that
\* is to deliver the text is still there), and what it returns is what was
\* written to the stream between the start of the capture and its release;
\* also when Release was called before, and for each of several calls.
C17_OutputReturnsCaptured ==
  /\ capture.mpc = "recv" => capture.rpc \in {"copy", "send"}
  /\ (capture.nOut > 0 /\ capture.mpc = "run") => capture.got = capture.written

Released == capture.f # "none" /\ capture.releaseF = "nil"

\* C18: once Release has run, the stream's handle is the one it had when
\* the capture began; a Release call after the first changes neither the
\* handle nor the Capture.
C18_ReleaseRestores ==
  /\ [](Released => capture.handle[capture.f] = capture.began[capture.f])
  /\ [][(Released /\ capture'.nRel = capture.nRel + 1)
          => [capture' EXCEPT !.nRel = 0] = [capture EXCEPT !.nRel = 0]]_vars

====
